---- MODULE Spec2Model ----
(***************************************************************************)
(* The questionnaire engine of rifid: the schema store (Template,          *)
(* TemplateField), answer persistence (Response, AdditionalField), the     *)
(* availability calculator (api/utils.py) and the recurrence scheduler     *)
(* (process_recurring_surveys, survey/services.py).                        *)
(*                                                                         *)
(* The relational store is the record db, one set of rows per table; a row *)
(* is a record whose id is its primary key.  Primary keys come from the    *)
(* per-table sequences db.pk.  today is the date of timezone.now() in      *)
(* whole days, runs_today the number of effective scheduler runs of the    *)
(* day, last the operation that led to the state with its inputs and       *)
(* outcome, inflight the requests being served at the same time, each with *)
(* its position in its handler (empty where handlers run one at a time).   *)
(***************************************************************************)
EXTENDS Integers, Sequences, FiniteSets, TLC

VARIABLES db, today, runs_today, last, inflight

vars == <<db, today, runs_today, last, inflight>>

\* Python's None: for a string-valued column, and for a primary key, a key or
\* a reference to a row.
None == "None"
Null == 0

(***************************************************************************)
(* Bounds of the model.                                                    *)
(***************************************************************************)
MaxFieldPk == 3

(***************************************************************************)
(* survey/models.py: constants of Template and TemplateField.              *)
(***************************************************************************)
TARGET_GUARDIANS == "guardians"
TARGET_TEACHERS == "teachers"
TARGET_EMPLOYEES == "employees"
TARGET_ALL == "all"

FREQ_ONCE == "once"
FREQ_WEEKLY == "weekly"
FREQ_MONTHLY == "monthly"
FREQ_QUARTERLY == "quarterly"
FREQ_YEARLY == "yearly"

TEXT == "text"
NUMBER == "number"
FORM == "form"

\* The field types the schema operations of the model are called with.
InputTypes == {TEXT, FORM}

\* The values "f" + uuid4().hex[:11] is drawn from: as many as fields can be
\* created, so that generate_key always finds a free one.
KeySpace == 1..MaxFieldPk

(***************************************************************************)
(* Template.save: is_builtin follows school.                               *)
(***************************************************************************)
Template_save(t) == [t EXCEPT !.is_builtin = (t.school = None)]

\* A Template row with the column defaults of the model class.
NewTemplate(id, parent) ==
    [id |-> id, parent |-> parent, school |-> None,
     target_audience |-> TARGET_GUARDIANS, grades |-> {},
     send_frequency |-> FREQ_MONTHLY, is_builtin |-> FALSE]

\* A TemplateField instance that was never saved (pk None, key empty,
\* order 0, is_public True).
NewField(template, type, is_required, is_multiple) ==
    [id |-> Null, key |-> Null, template |-> template, type |-> type,
     order |-> 0, is_public |-> TRUE, is_required |-> is_required,
     is_multiple |-> is_multiple]

FieldsOf(d, template) == {f \in d.fields : f.template = template}

(***************************************************************************)
(* TemplateField.generate_key: the keys it can return, those no row holds. *)
(* The key column is unique; save never presents a key a row holds, so the *)
(* constraint never rejects a save.                                        *)
(***************************************************************************)
generate_key_unchecked(d) == KeySpace

generate_key(d) == KeySpace \ {f.key : f \in d.fields}

(***************************************************************************)
(* TemplateField.save(self), key being what generate_key returned.  Only   *)
(* the columns of update_fields are written to a stored row; AllColumns    *)
(* stands for update_fields=None.                                          *)
(***************************************************************************)
AllColumns ==
    {"id", "key", "template", "type", "order", "is_public", "is_required",
     "is_multiple"}

TemplateField_save(d, self, key, update_fields) ==
    LET created == self.id = Null
        k == IF self.key = Null THEN key ELSE self.key
        o == IF self.order = 0
             THEN Cardinality(FieldsOf(d, self.template)) + 1
             ELSE self.order
        m == IF self.type = FORM THEN TRUE ELSE self.is_multiple
        pk == IF created THEN d.pk.field ELSE self.id
        inst == [self EXCEPT !.id = pk, !.key = k, !.order = o, !.is_multiple = m]
        old == CHOOSE f \in d.fields : f.id = pk
        row == IF created THEN inst
               ELSE [c \in DOMAIN inst |->
                        IF c \in update_fields THEN inst[c] ELSE old[c]]
        d1 == [d EXCEPT !.fields = {f \in @ : f.id # pk} \cup {row},
                        !.pk.field = IF created THEN @ + 1 ELSE @]
    IN  IF created /\ self.type = FORM
        THEN [d1 EXCEPT
                !.templates = @ \cup {Template_save(NewTemplate(d1.pk.template, pk))},
                !.pk.template = @ + 1]
        ELSE d1

(***************************************************************************)
(* Model.delete with the on_delete rules of the foreign keys: the fields   *)
(* and templates that go with a set of fields.                             *)
(***************************************************************************)
RECURSIVE CascadeFields(_, _)
CascadeFields(d, F) ==
    LET T == {t \in d.templates : t.parent \in {f.id : f \in F}}
        F2 == F \cup {f \in d.fields : f.template \in {t.id : t \in T}}
    IN  IF F2 = F THEN F ELSE CascadeFields(d, F2)

TemplateField_delete(d, field) ==
    LET F == CascadeFields(d, {field})
        fids == {f.id : f \in F}
        T == {t \in d.templates : t.parent \in fids}
        tids == {t.id : t \in T}
        R == {r \in d.responses : r.template \in tids}
        rids == {r.id : r \in R}
    IN  [d EXCEPT
           !.fields = @ \ F,
           !.templates = @ \ T,
           !.periods = {p \in @ : p.survey \notin tids},
           !.distributions = {x \in @ : x.survey \notin tids},
           !.responses = @ \ R,
           !.attributes = {[a EXCEPT !.field = IF @ \in fids THEN Null ELSE @] :
                              a \in {b \in @ : b.response \notin rids}}]

(***************************************************************************)
(* survey/views.py template_field_delete: re-pack the orders above the     *)
(* deleted field, then delete it.                                          *)
(***************************************************************************)
RECURSIVE RepackOrders(_, _)
RepackOrders(d, ids) ==
    IF ids = {} THEN d
    ELSE LET i == CHOOSE x \in ids : TRUE
             f == CHOOSE x \in d.fields : x.id = i
         IN  RepackOrders(
                 TemplateField_save(d, [f EXCEPT !.order = @ - 1], Null, {"order"}),
                 ids \ {i})

template_field_delete_no_repack(d, field) == TemplateField_delete(d, field)

template_field_delete(d, field) ==
    LET above == {f.id : f \in {g \in FieldsOf(d, field.template) :
                                   g.order > field.order}}
    IN  TemplateField_delete(RepackOrders(d, above), field)

(***************************************************************************)
(* datetime.date: a date is its day number, day 0 being Monday 1 January   *)
(* 2001; the years 2001 to 2003 have 365 days.                             *)
(***************************************************************************)
MonthStarts == <<0, 31, 59, 90, 120, 151, 181, 212, 243, 273, 304, 334>>
DayOfYear(date) == date % 365
month(date) ==
    CHOOSE m \in 1..12 :
        /\ MonthStarts[m] <= DayOfYear(date)
        /\ (m = 12 \/ DayOfYear(date) < MonthStarts[m + 1])
day(date) == DayOfYear(date) - MonthStarts[month(date)] + 1
weekday(date) == date % 7

(***************************************************************************)
(* Exceptions a call can end with.                                         *)
(***************************************************************************)
FieldError == "FieldError"
AttributeError == "AttributeError"

RECURSIVE SetToSeq(_)
SetToSeq(S) ==
    IF S = {} THEN <<>>
    ELSE LET x == CHOOSE y \in S : TRUE IN <<x>> \o SetToSeq(S \ {x})

(***************************************************************************)
(* core/models.py Student: the names a lookup on Student resolves.  A      *)
(* QuerySet.filter on any other name raises FieldError.                    *)
(***************************************************************************)
StudentLookups ==
    {"id", "school", "current_class", "student_id", "first_name", "last_name",
     "full_name", "is_active", "guardians", "guardianstudent", "timeline",
     "selected_for_guardians", "survey_distributions", "responses"}

\* Student.objects.filter(<lookup>__grade__school=school[, <lookup>__grade__in=grades])
Student_filter(d, lookup, school, grades) ==
    IF lookup \notin StudentLookups THEN [error |-> FieldError, rows |-> {}]
    ELSE [error |-> None,
          rows |-> {st \in d.students :
                      /\ st.class_school = school
                      /\ (grades = {} \/ st.grade \in grades)}]

\* for student in students: for guardian in student.guardians.all(): if guardian.user
GuardianPairs(d, students) ==
    {pr \in {<<g.user, st.id>> : g \in d.guardians, st \in students} :
        /\ pr[1] # None
        /\ \E g \in d.guardians :
              g.user = pr[1] /\ <<g.id, pr[2]>> \in d.guardian_students}

TeacherUsers(d, school) == {<<p.user, None>> : p \in {x \in d.teachers : x.school = school}}
EmployeeUsers(d, school) == {<<p.user, None>> : p \in {x \in d.employees : x.school = school}}

(***************************************************************************)
(* survey/services.py get_survey_recipients: the list of (user, student)   *)
(* it returns, or the exception the call ends with.                        *)
(***************************************************************************)
Returns(list) == [error |-> None, list |-> list]
Raises(e) == [error |-> e, list |-> <<>>]

get_survey_recipients_roles_merged(d, survey, school) ==
    IF school = None THEN Returns(<<>>)
    ELSE Returns(SetToSeq(TeacherUsers(d, school))
                    \o SetToSeq(EmployeeUsers(d, school)))

get_survey_recipients(d, survey, school) ==
    CASE survey.target_audience = TARGET_GUARDIANS ->
            LET students == Student_filter(d, "school_class", school, survey.grades)
            IN  IF students.error # None THEN Raises(students.error)
                ELSE Returns(SetToSeq(GuardianPairs(d, students.rows)))
      [] survey.target_audience = TARGET_TEACHERS ->
            IF school = None THEN Returns(<<>>)
            ELSE Returns(SetToSeq(TeacherUsers(d, school)))
      [] survey.target_audience = TARGET_EMPLOYEES ->
            IF school = None THEN Returns(<<>>)
            ELSE Returns(SetToSeq(EmployeeUsers(d, school)))
      [] survey.target_audience = TARGET_ALL ->
            IF school = None THEN Returns(<<>>)
            ELSE LET students == Student_filter(d, "school_class", school, {})
                 IN  IF students.error # None THEN Raises(students.error)
                     ELSE Returns(
                            SetToSeq(TeacherUsers(d, school))
                              \o SetToSeq(EmployeeUsers(d, school))
                              \o SetToSeq({<<pr[1], None>> :
                                             pr \in GuardianPairs(d, students.rows)}))
      [] OTHER -> Returns(<<>>)

(***************************************************************************)
(* survey/services.py calculate_end_date.                                  *)
(***************************************************************************)
calculate_end_date_whole_weeks(start_date, frequency) ==
    CASE frequency = FREQ_ONCE -> start_date + 28
      [] frequency = FREQ_WEEKLY -> start_date + 7
      [] frequency = FREQ_MONTHLY -> start_date + 28
      [] frequency = FREQ_QUARTERLY -> start_date + 91
      [] frequency = FREQ_YEARLY -> start_date + 364
      [] OTHER -> start_date + 28

calculate_end_date(start_date, frequency) ==
    CASE frequency = FREQ_ONCE -> start_date + 30
      [] frequency = FREQ_WEEKLY -> start_date + 7
      [] frequency = FREQ_MONTHLY -> start_date + 30
      [] frequency = FREQ_QUARTERLY -> start_date + 90
      [] frequency = FREQ_YEARLY -> start_date + 365
      [] OTHER -> start_date + 30

(***************************************************************************)
(* SurveyPeriod.save of a new row: an active period first deactivates      *)
(* every other active period of its survey.                                *)
(***************************************************************************)
SurveyPeriod_save_keeps_others(d, period) ==
    [d EXCEPT !.periods = @ \cup {[period EXCEPT !.id = d.pk.period]},
              !.pk.period = @ + 1]

SurveyPeriod_save(d, period) ==
    LET others == IF period.is_active
                  THEN {IF p.survey = period.survey /\ p.is_active
                        THEN [p EXCEPT !.is_active = FALSE] ELSE p :
                            p \in d.periods}
                  ELSE d.periods
    IN  [d EXCEPT !.periods = others \cup {[period EXCEPT !.id = d.pk.period]},
                  !.pk.period = @ + 1]

SurveyPeriod_is_expired_on_end_date(period, now_date) == now_date >= period.end_date

SurveyPeriod_is_expired(period, now_date) == now_date > period.end_date

(***************************************************************************)
(* QuerySet.bulk_create(rows, ignore_conflicts=True) on SurveyDistribution *)
(* with unique_together (period, user, student): a row that repeats a      *)
(* stored triple is skipped; SQL compares no NULL equal to a NULL, so a    *)
(* row with no student never conflicts.                                    *)
(***************************************************************************)
RECURSIVE SurveyDistribution_bulk_create(_, _)
SurveyDistribution_bulk_create(d, rows) ==
    IF rows = <<>> THEN d
    ELSE LET r == Head(rows)
             conflict == /\ r.student # None
                         /\ \E x \in d.distributions :
                               /\ x.period = r.period
                               /\ x.user = r.user
                               /\ x.student = r.student
             d1 == IF conflict THEN d
                   ELSE [d EXCEPT
                           !.distributions = @ \cup {[r EXCEPT !.id = d.pk.distribution]},
                           !.pk.distribution = @ + 1]
         IN  SurveyDistribution_bulk_create(d1, Tail(rows))

(***************************************************************************)
(* survey/services.py create_survey_distribution, under                    *)
(* @transaction.atomic: the period is saved, the recipients are resolved   *)
(* and one distribution per recipient is inserted; an exception undoes     *)
(* every write of the call.                                                *)
(***************************************************************************)
NewDistribution(period, survey, user, student, school) ==
    [id |-> Null, period |-> period, survey |-> survey, user |-> user,
     student |-> student, school |-> school, is_completed |-> FALSE,
     completed_at |-> None, response |-> Null]

create_survey_distribution_not_atomic(d, survey, school, start_date) ==
    LET end_date == calculate_end_date(start_date, survey.send_frequency)
        pk == d.pk.period
        d1 == SurveyPeriod_save(d, [id |-> Null, survey |-> survey.id,
                                    start_date |-> start_date, end_date |-> end_date,
                                    is_active |-> TRUE, school |-> school])
        recipients == get_survey_recipients(d1, survey, school)
        rows == [i \in 1..Len(recipients.list) |->
                    NewDistribution(pk, survey.id, recipients.list[i][1],
                                    recipients.list[i][2], school)]
    IN  IF recipients.error # None
        THEN [raised |-> TRUE, db |-> d1, period |-> Null, distributions |-> <<>>]
        ELSE [raised |-> FALSE, db |-> SurveyDistribution_bulk_create(d1, rows),
              period |-> pk, distributions |-> rows]

create_survey_distribution(d, survey, school, start_date) ==
    LET end_date == calculate_end_date(start_date, survey.send_frequency)
        pk == d.pk.period
        d1 == SurveyPeriod_save(d, [id |-> Null, survey |-> survey.id,
                                    start_date |-> start_date, end_date |-> end_date,
                                    is_active |-> TRUE, school |-> school])
        recipients == get_survey_recipients(d1, survey, school)
        rows == [i \in 1..Len(recipients.list) |->
                    NewDistribution(pk, survey.id, recipients.list[i][1],
                                    recipients.list[i][2], school)]
    IN  IF recipients.error # None
        THEN [raised |-> TRUE, db |-> d, period |-> Null, distributions |-> <<>>]
        ELSE [raised |-> FALSE, db |-> SurveyDistribution_bulk_create(d1, rows),
              period |-> pk, distributions |-> rows]

(***************************************************************************)
(* process_recurring_surveys Command.should_create_new_period.  Periods of *)
(* one survey with the same start date have the same end date, so which of *)
(* them order_by('-start_date').first() returns does not change the result.*)
(***************************************************************************)
should_create_new_period_ignores_open(d, survey, now_date) == TRUE

should_create_new_period_waits_for_calendar(d, survey, now_date) ==
    LET ps == {p \in d.periods : p.survey = survey.id}
        latest_period == CHOOSE p \in ps : \A q \in ps : q.start_date <= p.start_date
    IN  IF ps # {} /\ ~SurveyPeriod_is_expired(latest_period, now_date) THEN FALSE
        ELSE CASE survey.send_frequency = FREQ_WEEKLY -> weekday(now_date) = 0
               [] survey.send_frequency = FREQ_MONTHLY -> day(now_date) = 1
               [] survey.send_frequency = FREQ_QUARTERLY ->
                      day(now_date) = 1 /\ month(now_date) \in {1, 4, 7, 10}
               [] survey.send_frequency = FREQ_YEARLY ->
                      day(now_date) = 1 /\ month(now_date) = 9
               [] OTHER -> FALSE

should_create_new_period_ignores_calendar(d, survey, now_date) ==
    LET ps == {p \in d.periods : p.survey = survey.id}
        latest_period == CHOOSE p \in ps : \A q \in ps : q.start_date <= p.start_date
    IN  IF ps = {} THEN TRUE
        ELSE SurveyPeriod_is_expired(latest_period, now_date)

should_create_new_period(d, survey, now_date) ==
    LET ps == {p \in d.periods : p.survey = survey.id}
        latest_period == CHOOSE p \in ps : \A q \in ps : q.start_date <= p.start_date
    IN  IF ps = {} THEN TRUE
        ELSE IF ~SurveyPeriod_is_expired(latest_period, now_date) THEN FALSE
        ELSE CASE survey.send_frequency = FREQ_WEEKLY -> weekday(now_date) = 0
               [] survey.send_frequency = FREQ_MONTHLY -> day(now_date) = 1
               [] survey.send_frequency = FREQ_QUARTERLY ->
                      day(now_date) = 1 /\ month(now_date) \in {1, 4, 7, 10}
               [] survey.send_frequency = FREQ_YEARLY ->
                      day(now_date) = 1 /\ month(now_date) = 9
               [] OTHER -> FALSE

(***************************************************************************)
(* survey/services.py send_survey_notifications.  fcm is the state of the  *)
(* push service during the call: app is "ok" when firebase_admin imports   *)
(* and is initialized and "none" otherwise, failing holds the users messaging.send raises for,  *)
(* raises tells whether an exception leaves the function (the code outside *)
(* its inner try).  Only users with an fcm_token are notified.             *)
(***************************************************************************)
UsersWithToken == {"u1", "u2"}

FcmStates ==
    {[app |-> "none", failing |-> {}, raises |-> FALSE],
     [app |-> "ok", failing |-> {"u1"}, raises |-> FALSE],
     [app |-> "ok", failing |-> {}, raises |-> TRUE]}

send_survey_notifications(distributions, fcm) ==
    LET users == {distributions[i].user : i \in 1..Len(distributions)} \cap UsersWithToken
    IN  IF fcm.app # "ok" THEN [raised |-> FALSE, sent |-> {}, failed |-> {}]
        ELSE IF fcm.raises /\ users # {}
             THEN [raised |-> TRUE, sent |-> {}, failed |-> users]
        ELSE [raised |-> FALSE, sent |-> users \ fcm.failing,
              failed |-> users \cap fcm.failing]

(***************************************************************************)
(* process_recurring_surveys Command.handle: every recurring survey that   *)
(* needs a period is reported and, unless dry_run, gets one per school,    *)
(* followed by the notifications; an exception of one school is caught and *)
(* the loop goes on.  School.Meta orders schools by name.  The result is   *)
(* the store, the surveys reported as needing a period, the users notified *)
(* and whether a notification failed.                                      *)
(***************************************************************************)
SchoolsByName == <<"A", "B", "C">>

IsActiveSchool(d, name) == \E sc \in d.schools : sc.name = name /\ sc.is_active

RECURSIVE handle_schools_undoes_on_failure(_, _, _, _, _)
handle_schools_undoes_on_failure(run, survey, schools, now_date, fcm) ==
    IF schools = <<>> THEN run
    ELSE LET created == create_survey_distribution(run.db, survey, Head(schools), now_date)
             sending == send_survey_notifications(created.distributions, fcm)
             run1 == IF created.raised THEN [run EXCEPT !.db = created.db]
                     ELSE [run EXCEPT
                             !.db = IF sending.failed # {} THEN @ ELSE created.db,
                             !.notified = @ \cup sending.sent,
                             !.notify_failed = @ \/ sending.failed # {}]
         IN  handle_schools_undoes_on_failure(run1, survey, Tail(schools), now_date, fcm)

RECURSIVE handle_schools(_, _, _, _, _)
handle_schools(run, survey, schools, now_date, fcm) ==
    IF schools = <<>> THEN run
    ELSE LET created == create_survey_distribution(run.db, survey, Head(schools), now_date)
             sending == send_survey_notifications(created.distributions, fcm)
             run1 == IF created.raised THEN [run EXCEPT !.db = created.db]
                     ELSE [run EXCEPT
                             !.db = created.db,
                             !.notified = @ \cup sending.sent,
                             !.notify_failed = @ \/ sending.failed # {}]
         IN  handle_schools(run1, survey, Tail(schools), now_date, fcm)

RECURSIVE handle_surveys_stops_at_failure(_, _, _, _, _)
handle_surveys_stops_at_failure(run, surveys, now_date, dry_run, fcm) ==
    IF surveys = <<>> THEN run
    ELSE LET survey == Head(surveys)
             should_create == should_create_new_period(run.db, survey, now_date)
             schools == IF survey.is_builtin
                        THEN SelectSeq(SchoolsByName, LAMBDA n : IsActiveSchool(run.db, n))
                        ELSE IF survey.school # None THEN <<survey.school>> ELSE <<>>
             run1 == IF should_create
                     THEN [run EXCEPT !.reported = @ \cup {survey.id}]
                     ELSE run
             run2 == IF should_create /\ ~dry_run
                     THEN handle_schools(run1, survey, schools, now_date, fcm)
                     ELSE run1
             failure == /\ should_create /\ ~dry_run
                        /\ \E i \in 1..Len(schools) :
                              get_survey_recipients(run.db, survey, schools[i]).error # None
         IN  IF failure THEN run2
             ELSE handle_surveys_stops_at_failure(run2, Tail(surveys), now_date,
                                                  dry_run, fcm)

RECURSIVE handle_surveys(_, _, _, _, _)
handle_surveys(run, surveys, now_date, dry_run, fcm) ==
    IF surveys = <<>> THEN run
    ELSE LET survey == Head(surveys)
             should_create == should_create_new_period(run.db, survey, now_date)
             schools == IF survey.is_builtin
                        THEN SelectSeq(SchoolsByName, LAMBDA n : IsActiveSchool(run.db, n))
                        ELSE IF survey.school # None THEN <<survey.school>> ELSE <<>>
             run1 == IF should_create
                     THEN [run EXCEPT !.reported = @ \cup {survey.id}]
                     ELSE run
             run2 == IF should_create /\ ~dry_run
                     THEN handle_schools(run1, survey, schools, now_date, fcm)
                     ELSE run1
         IN  handle_surveys(run2, Tail(surveys), now_date, dry_run, fcm)

handle_includes_once(d, now_date, dry_run, fcm) ==
    handle_surveys(
        [db |-> d, reported |-> {}, notified |-> {}, notify_failed |-> FALSE],
        SetToSeq(d.templates), now_date, dry_run, fcm)

handle_writes_in_dry_run(d, now_date, dry_run, fcm) ==
    handle_surveys(
        [db |-> d, reported |-> {}, notified |-> {}, notify_failed |-> FALSE],
        SetToSeq({t \in d.templates : t.send_frequency # FREQ_ONCE}),
        now_date, FALSE, fcm)

handle(d, now_date, dry_run, fcm) ==
    handle_surveys(
        [db |-> d, reported |-> {}, notified |-> {}, notify_failed |-> FALSE],
        SetToSeq({t \in d.templates : t.send_frequency # FREQ_ONCE}),
        now_date, dry_run, fcm)

(***************************************************************************)
(* survey/views.py template_send, a POST by a user holding                 *)
(* survey.add_surveyperiod whose request.school is school: the store after *)
(* it, whether the view reached the sending (the user may send the         *)
(* template and it is a once template), the period it opened (Null if      *)
(* none), the users notified and whether a notification failed.            *)
(***************************************************************************)
template_send(d, template, school, is_superuser, now_date, fcm) ==
    LET Nothing(sending) == [db |-> d, sending |-> sending, period |-> Null,
                             notified |-> {}, notify_failed |-> FALSE]
    IN  IF template.school # None /\ template.school # school /\ ~is_superuser
        THEN Nothing(FALSE)
        ELSE IF template.send_frequency # FREQ_ONCE THEN Nothing(FALSE)
        ELSE IF get_survey_recipients(d, template, school).error # None
             THEN Nothing(TRUE)
        ELSE LET created == create_survey_distribution(d, template, school, now_date)
                 sending == send_survey_notifications(created.distributions, fcm)
             IN  IF created.raised THEN [Nothing(TRUE) EXCEPT !.db = created.db]
                 ELSE [db |-> created.db, sending |-> TRUE,
                       period |-> created.period,
                       notified |-> sending.sent,
                       notify_failed |-> sending.failed # {}]

(***************************************************************************)
(* The store with no row in it.                                            *)
(***************************************************************************)
EmptyDb ==
    [schools |-> {}, teachers |-> {}, employees |-> {}, guardians |-> {},
     students |-> {}, guardian_students |-> {},
     templates |-> {}, fields |-> {}, periods |-> {}, distributions |-> {},
     responses |-> {}, attributes |-> {},
     pk |-> [template |-> 1, field |-> 1, period |-> 1, distribution |-> 1,
             response |-> 1, attribute |-> 1]]

(***************************************************************************)
(* The schema store: one top-level Template, fields saved, edited and     *)
(* deleted one operation at a time.                                        *)
(***************************************************************************)
InitSchema ==
    /\ db = [EmptyDb EXCEPT
               !.templates = {Template_save(NewTemplate(1, Null))},
               !.pk.template = 2]
    /\ today = 0
    /\ runs_today = 0
    /\ last = [op |-> "init"]
    /\ inflight = <<>>

\* TemplateField.save on a new instance (template_detail posts the form).
FieldCreate ==
    \E t \in db.templates, ty \in InputTypes, k \in generate_key(db) :
        /\ db.pk.field <= MaxFieldPk
        /\ db' = TemplateField_save(db, NewField(t.id, ty, FALSE, FALSE), k, AllColumns)
        /\ last' = [op |-> "field_create"]
        /\ UNCHANGED <<today, runs_today, inflight>>

\* TemplateField.save on a stored instance (template_field_form), the type
\* and the flags being what the caller set.
FieldUpdate ==
    \E f \in db.fields, ty \in InputTypes :
        /\ db' = TemplateField_save(
                    db, [f EXCEPT !.type = ty, !.is_public = TRUE], Null, AllColumns)
        /\ last' = [op |-> "field_update"]
        /\ UNCHANGED <<today, runs_today, inflight>>

FieldDelete ==
    \E f \in db.fields :
        /\ db' = template_field_delete(db, f)
        /\ last' = [op |-> "field_delete", template |-> f.template, order |-> f.order]
        /\ UNCHANGED <<today, runs_today, inflight>>

(***************************************************************************)
(* The JSON values of a submission: null, a string, a number, or a list of *)
(* rows, a row mapping the keys of the nested form to values.  A key a     *)
(* dict does not hold reads as null (dict.get).                            *)
(***************************************************************************)
JNull == [t |-> "null", s |-> "", n |-> 0, rows |-> <<>>]
JStr(s) == [t |-> "str", s |-> s, n |-> 0, rows |-> <<>>]
JNum(n) == [t |-> "num", s |-> "", n |-> n, rows |-> <<>>]
JList(rows) == [t |-> "list", s |-> "", n |-> 0, rows |-> rows]

Get(data, key) == IF key \in DOMAIN data THEN data[key] ELSE JNull

\* django.forms Field.empty_values: None, '', [], (), {}
IsEmpty(v) == v \in {JNull, JStr(""), JList(<<>>)}

\* The numbers of the model and their decimal text: str(n), float(s), json.loads(s).
NumberTexts == {<<7, "7">>}
str(n) == (CHOOSE p \in NumberTexts : p[1] = n)[2]
IsNumberText(s) == \E p \in NumberTexts : p[2] = s
float(s) == (CHOOSE p \in NumberTexts : p[2] = s)[1]

Cleaned(v) == [error |-> None, value |-> v]
Invalid(e) == [error |-> e, value |-> JNull]

(***************************************************************************)
(* TemplateField.get_corresponding_django_form_field and the clean() of    *)
(* the form field it returns: CharField for text, FloatField for number,   *)
(* JSONField for nested-form.                                              *)
(***************************************************************************)
CharField_clean(v, required) ==
    LET value == CASE IsEmpty(v) -> JStr("")
                   [] v.t = "num" -> JStr(str(v.n))
                   [] v.t = "str" -> v
    IN  IF required /\ value = JStr("") THEN Invalid("required") ELSE Cleaned(value)

FloatField_clean(v, required) ==
    CASE IsEmpty(v) -> IF required THEN Invalid("required") ELSE Cleaned(JNull)
      [] v.t = "num" -> Cleaned(v)
      [] v.t = "str" -> IF IsNumberText(v.s) THEN Cleaned(JNum(float(v.s)))
                        ELSE Invalid("invalid")
      [] OTHER -> Invalid("invalid")

JSONField_clean(v, required) ==
    CASE IsEmpty(v) -> IF required THEN Invalid("required") ELSE Cleaned(JNull)
      [] v.t \in {"list", "num"} -> Cleaned(v)
      [] OTHER -> IF IsNumberText(v.s) THEN Cleaned(JNum(float(v.s)))
                  ELSE Invalid("invalid")

get_corresponding_django_form_field(field) ==
    [type |-> field.type, required |-> field.is_required]

FormField_clean(form_field, v) ==
    CASE form_field.type = NUMBER -> FloatField_clean(v, form_field.required)
      [] form_field.type = FORM -> JSONField_clean(v, form_field.required)
      [] OTHER -> CharField_clean(v, form_field.required)

\* order_by("order", "id")
RECURSIVE OrderedFields(_)
OrderedFields(S) ==
    IF S = {} THEN <<>>
    ELSE LET f == CHOOSE x \in S :
                     \A y \in S : x.order < y.order \/ (x.order = y.order /\ x.id <= y.id)
         IN  <<f>> \o OrderedFields(S \ {f})

(***************************************************************************)
(* Template.build_django_form: one form field per field of o_fields (all   *)
(* fields of the template when the given queryset is empty), keyed by the  *)
(* field's key.                                                            *)
(***************************************************************************)
build_django_form(d, template, data, is_public, fields) ==
    LET o_fields == IF fields = {} THEN FieldsOf(d, template) ELSE fields
    IN  [template |-> template, data |-> data, o_fields |-> o_fields,
         fields |-> [k \in {f.key : f \in o_fields} |->
                        LET f == CHOOSE x \in o_fields : x.key = k
                            ff == get_corresponding_django_form_field(f)
                        IN  IF f.is_required /\ ~f.is_public /\ is_public
                            THEN [ff EXCEPT !.required = FALSE] ELSE ff]]

(***************************************************************************)
(* Form.full_clean for a bound CustomForm with a ticket: every form field  *)
(* cleans its datum (_clean_fields), then CustomForm.clean validates each  *)
(* row of each nested-form value with the child Template's form.  errors   *)
(* holds the keys of form.errors, each as a path of one component.         *)
(*                                                                         *)
(* clean_errors is the walk of CustomForm.clean over the fields: a         *)
(* nested-form value that is no list is reported under the key of its      *)
(* field and the walk goes on; the first row whose form is not valid ends  *)
(* the walk with ValidationError(form.errors), which Form._clean_form adds *)
(* under the keys of the row's form.                                       *)
(***************************************************************************)
ErrorPath(key) == <<[field |-> key]>>

RECURSIVE full_clean(_, _)
RECURSIVE clean_errors(_, _, _)
clean_errors(d, cleaned_data, fs) ==
    IF fs = <<>> THEN {}
    ELSE LET f == Head(fs)
             v == cleaned_data[f.key]
             sub_form == CHOOSE t \in d.templates : t.parent = f.id
             RowErrors(i) ==
                 full_clean(d, build_django_form(
                     d, sub_form.id, v.rows[i], TRUE, FieldsOf(d, sub_form.id))).errors
             failing == {i \in 1..Len(v.rows) : RowErrors(i) # {}}
             first == CHOOSE i \in failing : \A j \in failing : i <= j
         IN  IF (IsEmpty(v) /\ ~f.is_required) \/ f.type # FORM
             THEN clean_errors(d, cleaned_data, Tail(fs))
             ELSE IF v.t # "list"
                  THEN {ErrorPath(f.key)} \cup clean_errors(d, cleaned_data, Tail(fs))
             ELSE IF failing = {} THEN clean_errors(d, cleaned_data, Tail(fs))
             ELSE RowErrors(first)

full_clean(d, form) ==
    LET res == [k \in DOMAIN form.fields |->
                    FormField_clean(form.fields[k], Get(form.data, k))]
        field_errors == {k \in DOMAIN res : res[k].error # None}
        cleaned_data == [k \in DOMAIN res |->
                            IF k \in field_errors THEN JNull ELSE res[k].value]
        RowsValid(f, rows) ==
            LET sub_form == CHOOSE t \in d.templates : t.parent = f.id
            IN  \A i \in 1..Len(rows) :
                    full_clean(d, build_django_form(
                        d, sub_form.id, rows[i], TRUE, FieldsOf(d, sub_form.id))).valid
        clean_failed ==
            {f.key : f \in {x \in form.o_fields :
                /\ ~(IsEmpty(cleaned_data[x.key]) /\ ~x.is_required)
                /\ x.type = FORM
                /\ \/ cleaned_data[x.key].t # "list"
                   \/ ~RowsValid(x, cleaned_data[x.key].rows)}}
    IN  [valid |-> field_errors = {} /\ clean_failed = {},
         cleaned_data |-> cleaned_data,
         errors |-> {ErrorPath(k) : k \in field_errors}
                      \cup clean_errors(d, cleaned_data, OrderedFields(form.o_fields))]

(***************************************************************************)
(* Template.CustomForm.save(commit=True, parent=None): one Attribute per   *)
(* field of o_fields, inserted with bulk_create; a nested-form field       *)
(* stores no value.                                                        *)
(***************************************************************************)
NewAttribute(response, field, value, parent) ==
    [id |-> Null, response |-> response, field |-> field.id, type |-> field.type,
     value |-> value, parent |-> parent, row |-> 0]

RECURSIVE AdditionalField_bulk_create(_, _)
AdditionalField_bulk_create(d, rows) ==
    IF rows = <<>> THEN d
    ELSE AdditionalField_bulk_create(
            [d EXCEPT !.attributes = @ \cup {[Head(rows) EXCEPT !.id = d.pk.attribute]},
                      !.pk.attribute = @ + 1],
            Tail(rows))

CustomForm_save(d, form, cleaned_data, ticket, parent) ==
    LET fs == OrderedFields(form.o_fields)
        rows == [i \in 1..Len(fs) |->
                    NewAttribute(ticket, fs[i],
                                 IF fs[i].type # FORM THEN cleaned_data[fs[i].key] ELSE JNull,
                                 parent)]
    IN  AdditionalField_bulk_create(d, rows)

(***************************************************************************)
(* Reading a Response back: its top-level Attributes by field key, and for *)
(* a nested-form Attribute the table of AdditionalField.sub_fields_table:  *)
(* the sub-Attributes grouped by row, rows in ascending order.             *)
(***************************************************************************)
KeyOf(d, field_id) == (CHOOSE f \in d.fields : f.id = field_id).key

RECURSIVE RowsInOrder(_, _)
RowsInOrder(d, values) ==
    IF values = {} THEN <<>>
    ELSE LET r == CHOOSE x \in {v.row : v \in values} :
                     \A y \in {v.row : v \in values} : x <= y
             group == {v \in values : v.row = r}
         IN  <<[k \in {KeyOf(d, v.field) : v \in group} |->
                    (CHOOSE v \in group : KeyOf(d, v.field) = k).value]>>
                \o RowsInOrder(d, values \ group)

sub_fields_table(d, attribute) ==
    RowsInOrder(d, {v \in d.attributes : v.parent = attribute.id})

read_answers(d, response) ==
    LET top == {a \in d.attributes : a.response = response /\ a.parent = Null}
    IN  [k \in {KeyOf(d, a.field) : a \in top} |->
            LET a == CHOOSE x \in top : KeyOf(d, x.field) = k
            IN  IF a.type = FORM THEN JList(sub_fields_table(d, a)) ELSE a.value]

(***************************************************************************)
(* api/utils.py.  Times are whole days; NoTime is the None that stands for *)
(* "no last submission".                                                   *)
(***************************************************************************)
NoTime == -1

FREQ_TO_DELTA ==
    [f \in {FREQ_WEEKLY, FREQ_MONTHLY, FREQ_QUARTERLY, FREQ_YEARLY} |->
        CASE f = FREQ_WEEKLY -> 7
          [] f = FREQ_MONTHLY -> 30
          [] f = FREQ_QUARTERLY -> 90
          [] f = FREQ_YEARLY -> 365]

next_available_at_no_default(last_dt, freq, now) ==
    IF last_dt = NoTime THEN now
    ELSE last_dt + (IF freq \in DOMAIN FREQ_TO_DELTA THEN FREQ_TO_DELTA[freq] ELSE 0)

next_available_at(last_dt, freq, now) ==
    IF last_dt = NoTime THEN now
    ELSE LET key == IF freq \in {None, ""} THEN FREQ_MONTHLY ELSE freq
         IN  last_dt + (IF key \in DOMAIN FREQ_TO_DELTA THEN FREQ_TO_DELTA[key] ELSE 30)

is_available_now(last_dt, freq, now) ==
    last_dt = NoTime \/ now >= next_available_at(last_dt, freq, now)

(***************************************************************************)
(* Attribute access on a model instance: the value of a column the model   *)
(* declares, AttributeError for any other name.                            *)
(***************************************************************************)
GetAttr(obj, name) ==
    IF name \in DOMAIN obj THEN [error |-> None, value |-> obj[name]]
    ELSE [error |-> AttributeError, value |-> None]

(***************************************************************************)
(* api/serializers.py ResponseCreateSerializer.                            *)
(***************************************************************************)
ValidationError == "ValidationError"
PermissionDenied == "PermissionDenied"
Ok == "ok"

TemplateById(d, id) == CHOOSE t \in d.templates : t.id = id

GuardianOf(d, user) == {g \in d.guardians : g.user = user}

ResponseCreateSerializer_validate_template(d, user, template) ==
    IF GuardianOf(d, user) = {} THEN ValidationError
    ELSE LET guardian == CHOOSE g \in GuardianOf(d, user) : TRUE
         IN  IF template.school # None /\ template.school # guardian.school
             THEN ValidationError ELSE Ok

last_response_at(d, template, guardian, student) ==
    LET rs == {r \in d.responses : /\ r.template = template.id
                                   /\ r.guardian = guardian.id
                                   /\ r.student = student}
    IN  IF rs = {} THEN NoTime
        ELSE (CHOOSE r \in rs : \A q \in rs : q.created_at <= r.created_at).created_at

ResponseCreateSerializer_validate_skips_availability(d, guardian, student, template, now) ==
    IF student = None THEN ValidationError ELSE Ok

ResponseCreateSerializer_validate_reads_send_frequency(d, guardian, student, template, now) ==
    IF student = None THEN ValidationError
    ELSE LET last_response == last_response_at(d, template, guardian, student)
             frequency == GetAttr(template, "send_frequency")
         IN  IF frequency.error # None THEN frequency.error
             ELSE IF ~is_available_now(last_response, frequency.value, now)
                  THEN ValidationError
                  ELSE Ok

ResponseCreateSerializer_validate(d, guardian, student, template, now) ==
    IF student = None THEN ValidationError
    ELSE LET last_response == last_response_at(d, template, guardian, student)
             frequency == GetAttr(template, "default_frequency")
         IN  IF frequency.error # None THEN frequency.error
             ELSE IF ~is_available_now(last_response, frequency.value, now)
                  THEN ValidationError
                  ELSE Ok

\* create, under transaction.atomic: an invalid form undoes the Response.
ResponseCreateSerializer_create(d, user, guardian, student, template, data, now) ==
    LET public_fields == {f \in FieldsOf(d, template.id) : f.is_public}
        response == d.pk.response
        d1 == [d EXCEPT !.responses = @ \cup
                            {[id |-> response, template |-> template.id,
                              guardian |-> guardian.id, student |-> student,
                              created_at |-> now]},
                        !.pk.response = @ + 1]
        form == build_django_form(d1, template.id, data, TRUE, public_fields)
        result == full_clean(d1, form)
    IN  IF ~result.valid
        THEN [outcome |-> ValidationError, db |-> d, response |-> Null,
              errors |-> result.errors]
        ELSE [outcome |-> "created",
              db |-> CustomForm_save(d1, form, result.cleaned_data, response, Null),
              response |-> response, errors |-> {}]

(***************************************************************************)
(* api/views.py ResponseViewSet.create behind IsGuardianUser and           *)
(* HasSelectedStudent: the outcome of the request and the store after it.  *)
(***************************************************************************)
ResponseViewSet_create(d, user, template, data, now) ==
    LET Fails(e) == [outcome |-> e, db |-> d, response |-> Null, errors |-> {}]
        guardian == CHOOSE g \in GuardianOf(d, user) : TRUE
        student == guardian.selected_student
    IN  IF GuardianOf(d, user) = {} THEN Fails(PermissionDenied)
        ELSE IF student = None THEN Fails(PermissionDenied)
        ELSE IF ResponseCreateSerializer_validate_template(d, user, template) # Ok
             THEN Fails(ValidationError)
        ELSE LET v == ResponseCreateSerializer_validate(d, guardian, student, template, now)
             IN  IF v # Ok THEN Fails(v)
                 ELSE ResponseCreateSerializer_create(
                          d, user, guardian, student, template, data, now)

(***************************************************************************)
(* The scheduler and the manual send action over a fixed schema and one of *)
(* the populations below; the date moves forward a week at a time.          *)
(***************************************************************************)
MaxDay == 15
MaxPeriodPk == 4
MaxRunsPerDay == 2
StartDays == {0}
DaySteps == {7}

SchedTemplate(id, school, audience, frequency) ==
    Template_save([NewTemplate(id, Null) EXCEPT
                      !.school = school, !.target_audience = audience,
                      !.send_frequency = frequency])

SchedTemplates ==
    {SchedTemplate(1, "A", TARGET_TEACHERS, FREQ_WEEKLY),
     SchedTemplate(2, None, TARGET_EMPLOYEES, FREQ_WEEKLY),
     SchedTemplate(3, "A", TARGET_GUARDIANS, FREQ_WEEKLY),
     SchedTemplate(4, None, TARGET_TEACHERS, FREQ_ONCE),
     SchedTemplate(5, "A", TARGET_ALL, FREQ_ONCE)}

Schools ==
    {[name |-> "A", is_active |-> TRUE], [name |-> "B", is_active |-> TRUE],
     [name |-> "C", is_active |-> FALSE]}

Populations ==
    {[teachers |-> {[user |-> "u1", school |-> "A"], [user |-> "u2", school |-> "A"],
                    [user |-> "u3", school |-> "C"]},
      employees |-> {[user |-> "u1", school |-> "A"], [user |-> "u2", school |-> "B"]}]}

Guardians ==
    {[id |-> "g1", user |-> "u1", school |-> "A", selected_student |-> "s1"],
     [id |-> "g2", user |-> None, school |-> "A", selected_student |-> None],
     [id |-> "g3", user |-> "u2", school |-> "B", selected_student |-> None]}

Students ==
    {[id |-> "s1", class_school |-> "A", grade |-> "G1"],
     [id |-> "s2", class_school |-> "A", grade |-> "G2"]}

GuardianStudents == {<<"g1", "s1">>, <<"g1", "s2">>, <<"g2", "s1">>}

InitSched ==
    /\ \E pop \in Populations :
          db = [EmptyDb EXCEPT
                  !.schools = Schools,
                  !.teachers = pop.teachers,
                  !.employees = pop.employees,
                  !.guardians = Guardians,
                  !.students = Students,
                  !.guardian_students = GuardianStudents,
                  !.templates = SchedTemplates,
                  !.pk.template = 6]
    /\ today \in StartDays
    /\ runs_today = 0
    /\ last = [op |-> "init"]
    /\ inflight = <<>>

\* One run of manage.py process_recurring_surveys [--dry-run].
SchedulerRun ==
    \E dry_run \in BOOLEAN, fcm \in FcmStates :
        LET run == handle(db, today, dry_run, fcm)
        IN  /\ runs_today < MaxRunsPerDay
            /\ db.pk.period <= MaxPeriodPk
            /\ db' = run.db
            /\ runs_today' = IF dry_run THEN runs_today ELSE runs_today + 1
            /\ last' = [op |-> "handle", dry_run |-> dry_run,
                        reported |-> run.reported, notified |-> run.notified,
                        notify_failed |-> run.notify_failed]
            /\ UNCHANGED <<today, inflight>>

\* POST to template_send by a user whose request.school is school.
\* The users that send by hand: staff of school A, staff of school B and a
\* superuser of no school.
Requests ==
    {[school |-> "A", is_superuser |-> FALSE],
     [school |-> "B", is_superuser |-> FALSE],
     [school |-> None, is_superuser |-> TRUE]}

TemplateSend ==
    \E t \in db.templates, request \in Requests, fcm \in FcmStates :
        LET sent == template_send(db, t, request.school, request.is_superuser,
                                  today, fcm)
        IN  /\ db.pk.period <= MaxPeriodPk
            /\ db' = sent.db
            /\ last' = [op |-> "template_send",
                        template |-> IF sent.sending THEN t.id ELSE Null,
                        school |-> IF sent.sending THEN request.school ELSE None,
                        period |-> sent.period,
                        notified |-> sent.notified,
                        notify_failed |-> sent.notify_failed]
            /\ UNCHANGED <<today, runs_today, inflight>>

\* Midnight passes.
AdvanceDay ==
    \E days \in DaySteps :
    /\ today + days <= MaxDay
    /\ today' = today + days
    /\ runs_today' = 0
    /\ last' = [op |-> "day"]
    /\ UNCHANGED <<db, inflight>>

NextSched == SchedulerRun \/ TemplateSend \/ AdvanceDay

SpecSched == InitSched /\ [][NextSched]_vars

NextSchema == FieldCreate \/ FieldUpdate \/ FieldDelete

SpecSchema == InitSchema /\ [][NextSchema]_vars

(***************************************************************************)
(* Submissions.  The store holds Template 1 (school A, teachers, weekly)   *)
(* with a required text field (key 1) and a nested-form field (key 2)      *)
(* whose child Template has a required number field (key 3), all saved     *)
(* through TemplateField.save.  Response.guardian is "kept temporarily for *)
(* migration" (survey/models.py): the store may hold a Response of an      *)
(* earlier release.                                                        *)
(***************************************************************************)
MaxRows == 2
MaxResponsePk == 2

SubmitGuardians ==
    {[id |-> "g1", user |-> "u1", school |-> "A", selected_student |-> "s1"],
     [id |-> "g2", user |-> "u2", school |-> "B", selected_student |-> "s2"],
     [id |-> "g3", user |-> "u3", school |-> "A", selected_student |-> None]}

SubmitUsers == {"u1", "u2", "u3"}

SubmitDb ==
    LET base == [EmptyDb EXCEPT
                    !.schools = Schools,
                    !.teachers = {[user |-> "u1", school |-> "A"],
                                  [user |-> "u2", school |-> "A"]},
                    !.guardians = SubmitGuardians,
                    !.students = Students,
                    !.guardian_students = GuardianStudents \cup {<<"g2", "s2">>},
                    !.templates = {SchedTemplate(1, "A", TARGET_TEACHERS, FREQ_WEEKLY)},
                    !.pk.template = 2]
        d1 == TemplateField_save(base, NewField(1, TEXT, TRUE, FALSE), 1, AllColumns)
        d2 == TemplateField_save(d1, NewField(1, FORM, FALSE, FALSE), 2, AllColumns)
    IN  TemplateField_save(d2, NewField(2, NUMBER, TRUE, FALSE), 3, AllColumns)

EarlierResponses ==
    {[id |-> 1, template |-> 1, guardian |-> "g1", student |-> "s1", created_at |-> 0]}

RowValues == {JNum(7), JStr("7"), JStr("x"), JNull}
Rows == [{3} -> RowValues]
RowLists == UNION {[1..n -> Rows] : n \in 0..MaxRows}

AnswerSets ==
    {[k \in {1, 2} |-> IF k = 1 THEN a ELSE b] :
        a \in {JNull, JStr("a"), JNum(7)},
        b \in {JNull, JStr("x")} \cup {JList(r) : r \in RowLists}}

\* The bodies posted to the endpoint: the text answer absent or given, the
\* nested form absent or holding one row, valid or not.
SubmitAnswers ==
    {data \in AnswerSets :
        /\ data[1] \in {JNull, JStr("a")}
        /\ data[2] \in {JNull, JList(<<[k \in {3} |-> JNum(7)]>>),
                         JList(<<[k \in {3} |-> JStr("x")]>>)}}

InitSubmit ==
    /\ \E rs \in SUBSET EarlierResponses :
          db = [SubmitDb EXCEPT !.responses = rs,
                                !.pk.response = 1 + Cardinality(rs)]
    /\ today \in StartDays
    /\ runs_today = 0
    /\ last = [op |-> "init"]
    /\ inflight = <<>>

\* POST /responses/ by user with the body {template, fields: data}.
Submit ==
    \E user \in SubmitUsers, t \in db.templates, data \in SubmitAnswers :
        LET r == ResponseViewSet_create(db, user, t, data, today)
        IN  /\ db.pk.response <= MaxResponsePk
            /\ db' = r.db
            /\ last' = [op |-> "submit", user |-> user, template |-> t.id,
                        data |-> data, outcome |-> r.outcome, response |-> r.response]
            /\ UNCHANGED <<today, runs_today, inflight>>

NextSubmit == Submit \/ SchedulerRun \/ AdvanceDay

SpecSubmit == InitSubmit /\ [][NextSubmit]_vars

(***************************************************************************)
(* Persisting one answer set and reading it back:                          *)
(* ResponseCreateSerializer.create applied to the answers, then the        *)
(* Attribute tree of the Response it returned.                             *)
(***************************************************************************)
InitForm ==
    /\ db = SubmitDb
    /\ today = 0
    /\ runs_today = 0
    /\ \E data \in AnswerSets : last = [op |-> "answers", data |-> data]
    /\ inflight = <<>>

FormPersist ==
    /\ last.op = "answers"
    /\ LET guardian == CHOOSE g \in db.guardians : g.id = "g1"
           template == CHOOSE t \in db.templates : t.id = 1
           r == ResponseCreateSerializer_create(
                    db, guardian.user, guardian, guardian.selected_student,
                    template, last.data, today)
       IN  /\ db' = r.db
           /\ last' = [op |-> "create", data |-> last.data,
                       outcome |-> r.outcome, response |-> r.response,
                       errors |-> r.errors]
    /\ UNCHANGED <<today, runs_today, inflight>>

FormReadBack ==
    /\ last.op = "create"
    /\ last.outcome = "created"
    /\ last' = [op |-> "read", data |-> last.data, response |-> last.response,
                read |-> read_answers(db, last.response)]
    /\ UNCHANGED <<db, today, runs_today, inflight>>

NextForm == FormPersist \/ FormReadBack

SpecForm == InitForm /\ [][NextForm]_vars

(***************************************************************************)
(* is_available_now as a function of the last submission time, the        *)
(* frequency and the clock.                                                *)
(***************************************************************************)
MaxT0 == 2
MaxNow == 370

Frequencies == {FREQ_ONCE, FREQ_WEEKLY, FREQ_MONTHLY, FREQ_QUARTERLY, FREQ_YEARLY}

InitAvail ==
    /\ \E t0 \in {NoTime} \cup (0..MaxT0), freq \in Frequencies :
          /\ db = [last_dt |-> t0, freq |-> freq]
          /\ today = IF t0 = NoTime THEN 0 ELSE t0
    /\ runs_today = 0
    /\ last = [op |-> "init"]
    /\ inflight = <<>>

AvailTick ==
    /\ today < MaxNow
    /\ today' = today + 1
    /\ last' = [op |-> "tick"]
    /\ UNCHANGED <<db, runs_today, inflight>>

AvailEvaluate ==
    /\ last' = [op |-> "is_available_now",
                result |-> is_available_now(db.last_dt, db.freq, today)]
    /\ UNCHANGED <<db, today, runs_today, inflight>>

NextAvail == AvailTick \/ AvailEvaluate

SpecAvail == InitAvail /\ [][NextAvail]_vars

(***************************************************************************)
(* The scheduler and the manual send on any date: one Template of school A *)
(* of any frequency, with no Period or with the Period an opening on one   *)
(* of the first days left, met on a later date: any day of the first month *)
(* and the first two days of every month after it.  The Period was opened  *)
(* while the audience of the Template was teachers; TemplateForm lets the  *)
(* audience be edited afterwards.                                          *)
(***************************************************************************)
MaxDate == 610
CalStarts == {0, 1}
CalDates == {date \in 0..MaxDate : date <= 31 \/ day(date) <= 2}
CalAudiences == {TARGET_TEACHERS, TARGET_GUARDIANS}

InitCal ==
    /\ \E freq \in Frequencies, audience \in CalAudiences,
          start \in CalStarts \cup {NoTime}, pop \in Populations :
          LET t == SchedTemplate(1, "A", audience, freq)
              d == [EmptyDb EXCEPT
                      !.schools = Schools,
                      !.teachers = pop.teachers,
                      !.employees = pop.employees,
                      !.guardians = Guardians,
                      !.students = Students,
                      !.guardian_students = GuardianStudents,
                      !.templates = {t},
                      !.pk.template = 2]
              opened_as == SchedTemplate(1, "A", TARGET_TEACHERS, freq)
              opened == create_survey_distribution(
                            [d EXCEPT !.templates = {opened_as}], opened_as, "A", start).db
          IN  db = IF start = NoTime THEN d
                   ELSE [opened EXCEPT !.templates = {t}]
    /\ today \in CalDates
    /\ \A p \in db.periods : p.start_date <= today
    /\ runs_today = 0
    /\ last = [op |-> "init"]
    /\ inflight = <<>>

NextCal == SchedulerRun \/ TemplateSend

SpecCal == InitCal /\ [][NextCal]_vars

(***************************************************************************)
(* AdditionalField.save and the deletion of an AdditionalField, as the     *)
(* admin site (AdditionalFieldAdmin) calls them.  save of a row with a     *)
(* parent sets row to the number of rows the parent has for the field,     *)
(* the saved row itself included when it is already stored.  The parent    *)
(* key cascades on delete.                                                 *)
(***************************************************************************)
AdditionalField_save(d, attribute) ==
    LET row == IF attribute.parent # Null
               THEN Cardinality({x \in d.attributes : /\ x.parent = attribute.parent
                                                       /\ x.field = attribute.field})
               ELSE attribute.row
        saved == [attribute EXCEPT !.row = row]
    IN  IF attribute.id = Null
        THEN [d EXCEPT !.attributes = @ \cup {[saved EXCEPT !.id = d.pk.attribute]},
                       !.pk.attribute = @ + 1]
        ELSE [d EXCEPT !.attributes = (@ \ {attribute}) \cup {saved}]

AdditionalField_delete(d, attribute) ==
    [d EXCEPT !.attributes =
        {x \in @ : x.id # attribute.id /\ x.parent # attribute.id}]

(***************************************************************************)
(* Rows saved and deleted under the nested-form Attribute of a Response.   *)
(***************************************************************************)
MaxAttributePk == 6

InitRows ==
    /\ LET guardian == CHOOSE g \in SubmitDb.guardians : g.id = "g1"
           template == CHOOSE t \in SubmitDb.templates : t.id = 1
           data == CHOOSE a \in SubmitAnswers : a[1] = JStr("a") /\ a[2] = JNull
       IN  db = ResponseCreateSerializer_create(
                    SubmitDb, guardian.user, guardian, guardian.selected_student,
                    template, data, 0).db
    /\ today = 0
    /\ runs_today = 0
    /\ last = [op |-> "init"]
    /\ inflight = <<>>

RowSave ==
    \E parent \in {a \in db.attributes : a.type = FORM},
       field \in {f \in db.fields : f.type # FORM} :
        /\ db.pk.attribute <= MaxAttributePk
        /\ db' = AdditionalField_save(
                     db, NewAttribute(parent.response, field, JNull, parent.id))
        /\ last' = [op |-> "row_save", attribute |-> db.pk.attribute]
        /\ UNCHANGED <<today, runs_today, inflight>>

RowChange ==
    \E attribute \in {a \in db.attributes : a.parent # Null} :
        /\ db' = AdditionalField_save(db, attribute)
        /\ last' = [op |-> "row_change", attribute |-> attribute.id]
        /\ UNCHANGED <<today, runs_today, inflight>>

RowDelete ==
    \E attribute \in {a \in db.attributes : a.parent # Null} :
        /\ db' = AdditionalField_delete(db, attribute)
        /\ last' = [op |-> "row_delete", attribute |-> attribute.id]
        /\ UNCHANGED <<today, runs_today, inflight>>

NextRows == RowSave \/ RowChange \/ RowDelete

SpecRows == InitRows /\ [][NextRows]_vars

(***************************************************************************)
(* survey/views.py template_form, a POST that edits a stored Template by a *)
(* user holding survey.change_template: TemplateForm sets the audience and *)
(* the frequency, the view saves the Template.  Any Template of type food  *)
(* is found by its id, the child Template of a nested-form field included. *)
(***************************************************************************)
template_form(d, template, school, is_superuser, target_audience, send_frequency) ==
    IF template.school # None /\ template.school # school /\ ~is_superuser
    THEN d
    ELSE [d EXCEPT !.templates =
            (@ \ {template})
              \cup {Template_save([template EXCEPT
                                     !.target_audience = target_audience,
                                     !.send_frequency = send_frequency])}]

(***************************************************************************)
(* The scheduler over a Template with a nested-form field and the child    *)
(* Template of that field, with edits of the two Templates.                *)
(***************************************************************************)
EditAudiences == {TARGET_TEACHERS, TARGET_GUARDIANS}
EditFrequencies == {FREQ_WEEKLY, FREQ_MONTHLY}

InitChild ==
    /\ db = SubmitDb
    /\ today \in StartDays
    /\ runs_today = 0
    /\ last = [op |-> "init"]
    /\ inflight = <<>>

TemplateEdit ==
    \E t \in db.templates, request \in Requests,
       target_audience \in EditAudiences, send_frequency \in EditFrequencies :
        /\ db' = template_form(db, t, request.school, request.is_superuser,
                               target_audience, send_frequency)
        /\ last' = [op |-> "template_form"]
        /\ UNCHANGED <<today, runs_today, inflight>>

NextChild == TemplateEdit \/ SchedulerRun \/ AdvanceDay

SpecChild == InitChild /\ [][NextChild]_vars

(***************************************************************************)
(* core/admin.py SchoolAdmin: the admin saves a School with is_active set  *)
(* or cleared.                                                             *)
(***************************************************************************)
SchoolAdmin_save(d, school, is_active) ==
    [d EXCEPT !.schools = (@ \ {school}) \cup {[school EXCEPT !.is_active = is_active]}]

(***************************************************************************)
(* The scheduler over a global weekly Template and a Template of school A, *)
(* with schools switched on and off between the runs.                      *)
(***************************************************************************)
OrgTemplates ==
    {SchedTemplate(1, "A", TARGET_TEACHERS, FREQ_WEEKLY),
     SchedTemplate(2, None, TARGET_EMPLOYEES, FREQ_WEEKLY)}

InitOrgs ==
    /\ \E pop \in Populations :
          db = [EmptyDb EXCEPT
                  !.schools = Schools,
                  !.teachers = pop.teachers,
                  !.employees = pop.employees,
                  !.templates = OrgTemplates,
                  !.pk.template = 3]
    /\ today \in StartDays
    /\ runs_today = 0
    /\ last = [op |-> "init"]
    /\ inflight = <<>>

SchoolSave ==
    \E school \in db.schools, is_active \in BOOLEAN :
        /\ db' = SchoolAdmin_save(db, school, is_active)
        /\ last' = [op |-> "school_save", school |-> school.name]
        /\ UNCHANGED <<today, runs_today, inflight>>

NextOrgs == SchoolSave \/ SchedulerRun \/ AdvanceDay

SpecOrgs == InitOrgs /\ [][NextOrgs]_vars

(***************************************************************************)
(* api/views.py ResponseViewSet.create served for two requests at once.    *)
(* A request first runs serializer.is_valid (validate_template, validate:  *)
(* the availability check reads the store), then serializer.save (create,  *)
(* one transaction).  No lock is taken and the Response table has no       *)
(* unique constraint, so the steps of the two requests interleave freely.  *)
(***************************************************************************)
ResponseViewSet_is_valid(d, user, template, now) ==
    LET guardian == CHOOSE g \in GuardianOf(d, user) : TRUE
        student == guardian.selected_student
    IN  IF GuardianOf(d, user) = {} THEN PermissionDenied
        ELSE IF student = None THEN PermissionDenied
        ELSE IF ResponseCreateSerializer_validate_template(d, user, template) # Ok
             THEN ValidationError
        ELSE ResponseCreateSerializer_validate(d, guardian, student, template, now)

ResponseViewSet_save(d, user, template, data, now) ==
    LET guardian == CHOOSE g \in GuardianOf(d, user) : TRUE
    IN  ResponseCreateSerializer_create(d, user, guardian, guardian.selected_student,
                                        template, data, now)

RequestIds == {1, 2}

InitRequests ==
    /\ \E rs \in SUBSET EarlierResponses :
          db = [SubmitDb EXCEPT !.responses = rs,
                                !.pk.response = 1 + Cardinality(rs)]
    /\ today \in StartDays
    /\ runs_today = 0
    /\ last = [op |-> "init"]
    /\ \E user \in SubmitUsers, bodies \in [RequestIds -> SubmitAnswers] :
          inflight = [r \in RequestIds |->
                         [pc |-> "received", user |-> user, template |-> 1,
                          data |-> bodies[r], outcome |-> None]]

\* The next step of one of the requests.
RequestStep ==
    \E r \in RequestIds :
        LET request == inflight[r]
            template == TemplateById(db, request.template)
        IN  /\ request.pc \in {"received", "validated"}
            /\ IF request.pc = "received"
               THEN LET v == ResponseViewSet_is_valid(db, request.user, template, today)
                    IN  /\ db' = db
                        /\ inflight' = [inflight EXCEPT
                              ![r].pc = IF v = Ok THEN "validated" ELSE "done",
                              ![r].outcome = IF v = Ok THEN None ELSE v]
               ELSE LET c == ResponseViewSet_save(db, request.user, template,
                                                  request.data, today)
                    IN  /\ db' = c.db
                        /\ inflight' = [inflight EXCEPT
                              ![r].pc = "done", ![r].outcome = c.outcome]
            /\ last' = [op |-> "request", request |-> r]
            /\ UNCHANGED <<today, runs_today>>

NextRequests == RequestStep

SpecRequests == InitRequests /\ [][NextRequests]_vars

(***************************************************************************)
(* survey/services.py create_survey_distribution called for two openings   *)
(* at once, statement by statement.  SurveyPeriod.objects.create runs      *)
(* SurveyPeriod.save: first the UPDATE that clears is_active on the active *)
(* Periods of the survey, then the INSERT of the new Period.  The fan-out  *)
(* follows the INSERT and the transaction commits, or an exception undoes  *)
(* the writes of the call, the UPDATE included.  No lock is taken.         *)
(***************************************************************************)
SurveyPeriod_deactivate_others(d, period) ==
    [d EXCEPT !.periods = {IF p.survey = period.survey /\ p.is_active
                           THEN [p EXCEPT !.is_active = FALSE] ELSE p :
                               p \in d.periods}]

SurveyPeriod_insert(d, period) ==
    [d EXCEPT !.periods = @ \cup {[period EXCEPT !.id = d.pk.period]},
              !.pk.period = @ + 1]

NewPeriod(survey, school, start_date) ==
    [id |-> Null, survey |-> survey.id, start_date |-> start_date,
     end_date |-> calculate_end_date(start_date, survey.send_frequency),
     is_active |-> TRUE, school |-> school]

\* The rows a rolled back call had cleared are active again.
Rollback(d, cleared) ==
    [d EXCEPT !.periods = {IF p.id \in cleared THEN [p EXCEPT !.is_active = TRUE] ELSE p :
                               p \in d.periods}]

create_survey_distribution_insert(d, survey, school, start_date, cleared) ==
    LET pk == d.pk.period
        d1 == SurveyPeriod_insert(d, NewPeriod(survey, school, start_date))
        recipients == get_survey_recipients(d1, survey, school)
        rows == [i \in 1..Len(recipients.list) |->
                    NewDistribution(pk, survey.id, recipients.list[i][1],
                                    recipients.list[i][2], school)]
    IN  IF recipients.error # None
        THEN [raised |-> TRUE, db |-> Rollback(d, cleared), period |-> Null]
        ELSE [raised |-> FALSE, db |-> SurveyDistribution_bulk_create(d1, rows),
              period |-> pk]

\* The openings that a scheduler run or a manual send starts in the store d
\* on the day now_date.
OpeningsOf(d, t, now_date) ==
    IF t.send_frequency # FREQ_ONCE
    THEN IF ~should_create_new_period(d, t, now_date) THEN {}
         ELSE {[survey |-> t.id, school |-> sc, by |-> "handle"] :
                  sc \in IF t.is_builtin
                         THEN {x.name : x \in {y \in d.schools : y.is_active}}
                         ELSE {t.school} \ {None}}
    ELSE {[survey |-> t.id, school |-> request.school, by |-> "template_send"] :
             request \in {x \in Requests :
                             template_send(d, t, x.school, x.is_superuser, now_date,
                                           CHOOSE fcm \in FcmStates : TRUE).period # Null}}

Openings(d, now_date) == UNION {OpeningsOf(d, t, now_date) : t \in d.templates}

InitOpenings ==
    /\ \E pop \in Populations :
          db = [EmptyDb EXCEPT
                  !.schools = Schools,
                  !.teachers = pop.teachers,
                  !.employees = pop.employees,
                  !.guardians = Guardians,
                  !.students = Students,
                  !.guardian_students = GuardianStudents,
                  !.templates = SchedTemplates,
                  !.pk.template = 6]
    /\ today \in StartDays
    /\ runs_today = 0
    /\ last = [op |-> "init"]
    /\ \E a, b \in Openings(db, today) :
          /\ a.survey = b.survey
          /\ inflight = [r \in RequestIds |->
                            [pc |-> "start", survey |-> IF r = 1 THEN a.survey ELSE b.survey,
                             school |-> IF r = 1 THEN a.school ELSE b.school,
                             by |-> IF r = 1 THEN a.by ELSE b.by,
                             cleared |-> {}, period |-> Null]]

\* The next statement of one of the openings.
OpeningStep ==
    \E r \in RequestIds :
        LET opening == inflight[r]
            survey == TemplateById(db, opening.survey)
        IN  /\ opening.pc \in {"start", "deactivated"}
            /\ IF opening.pc = "start"
               THEN /\ db' = SurveyPeriod_deactivate_others(
                                  db, NewPeriod(survey, opening.school, today))
                    /\ inflight' = [inflight EXCEPT
                          ![r].pc = "deactivated",
                          ![r].cleared = {p.id : p \in {q \in db.periods :
                                             q.survey = survey.id /\ q.is_active}}]
               ELSE LET created == create_survey_distribution_insert(
                                       db, survey, opening.school, today, opening.cleared)
                    IN  /\ db' = created.db
                        /\ inflight' = [inflight EXCEPT
                              ![r].pc = IF created.raised THEN "raised" ELSE "done",
                              ![r].period = created.period]
            /\ last' = [op |-> "opening", request |-> r]
            /\ UNCHANGED <<today, runs_today>>

NextOpenings == OpeningStep

SpecOpenings == InitOpenings /\ [][NextOpenings]_vars

(***************************************************************************)
(* C1.  Order density: in every state reached by field creations (save     *)
(* with no order given), updates and deletions, the order values of the    *)
(* fields of each Template are exactly 1..N, N the number of its fields.   *)
(***************************************************************************)
C1_OrderDense ==
    \A t \in db.templates :
        {f.order : f \in FieldsOf(db, t.id)} = 1..Cardinality(FieldsOf(db, t.id))

\* A field was deleted from below others: the fields left were re-packed.
C1_Witness ==
    /\ last.op = "field_delete"
    /\ \E f \in FieldsOf(db, last.template) : f.order >= last.order
    /\ Cardinality(FieldsOf(db, last.template)) >= 2

(***************************************************************************)
(* C10.  As claimed: in every state reached by field creations and updates *)
(* every field of type nested-form has is_multiple and owns exactly one    *)
(* child Template.                                                         *)
(***************************************************************************)
C10_NestedFormOwnsChild ==
    \A f \in db.fields :
        f.type = FORM =>
            /\ f.is_multiple
            /\ Cardinality({t \in db.templates : t.parent = f.id}) = 1


(***************************************************************************)
(* C2: for every (Template, organization) pair, after any sequence of      *)
(* scheduler runs and manual sends, at most one Period of the pair is      *)
(* active, and a step that opens a Period for the pair leaves every Period *)
(* of the pair that was active before it inactive.                         *)
(***************************************************************************)
AtMostOneActivePerPair ==
    \A p, q \in db.periods :
        (p.survey = q.survey /\ p.school = q.school /\ p.is_active /\ q.is_active)
            => p.id = q.id

OpeningDeactivates ==
    \A p \in db'.periods :
        p.id \notin {q.id : q \in db.periods} =>
            \A q \in db.periods :
                (q.survey = p.survey /\ q.school = p.school /\ q.is_active) =>
                    \E r \in db'.periods : r.id = q.id /\ ~r.is_active

C2_OneActivePeriodPerPair == []AtMostOneActivePerPair /\ [][OpeningDeactivates]_vars

C2_Witness ==
    \E p, q \in db.periods :
        /\ p.survey = q.survey /\ p.school = q.school
        /\ p.id < q.id /\ ~p.is_active /\ q.is_active

(***************************************************************************)
(* C3: a scheduler run that follows another run of the same day creates no *)
(* Period and no Distribution; the scheduler leaves one Period per         *)
(* (recurring Template, organization, day), holding as many Distributions  *)
(* as recipient resolution lists for the pair.                             *)
(***************************************************************************)
IsRecurring(d, survey) ==
    \E t \in d.templates : t.id = survey /\ t.send_frequency # FREQ_ONCE

SecondRunCreatesNothing ==
    (runs_today >= 1 /\ runs_today' = runs_today + 1) =>
        (db'.periods = db.periods /\ db'.distributions = db.distributions)

OnePeriodPerDay ==
    \A p \in db.periods :
        IsRecurring(db, p.survey) =>
            /\ \A q \in db.periods :
                  (q.survey = p.survey /\ q.school = p.school
                      /\ q.start_date = p.start_date) => q.id = p.id
            /\ LET t == CHOOSE x \in db.templates : x.id = p.survey
               IN  Cardinality({x \in db.distributions : x.period = p.id})
                      = Len(get_survey_recipients(db, t, p.school).list)

Delta(freq) ==
    CASE freq = FREQ_WEEKLY -> 7
      [] freq = FREQ_MONTHLY -> 30
      [] freq = FREQ_QUARTERLY -> 90
      [] freq = FREQ_YEARLY -> 365
      [] freq = FREQ_ONCE -> 30

\* The answers pass the validation of the Template's form, nested rows included.
AnswersValid(d, template, data) ==
    full_clean(d, build_django_form(
        d, template, data, TRUE,
        {f \in FieldsOf(d, template) : f.is_public})).valid

\* The last Response of the user's (guardian, student) for the Template is
\* younger than the Template's waiting time.
NotYetEligible(d, user, template, now) ==
    \E g \in GuardianOf(d, user) :
        LET rs == {r \in d.responses : /\ r.template = template
                                       /\ r.guardian = g.id
                                       /\ r.student = g.selected_student}
        IN  /\ g.selected_student # None
            /\ rs # {}
            /\ \E r \in rs :
                  /\ \A q \in rs : q.created_at <= r.created_at
                  /\ now < r.created_at
                             + Delta(TemplateById(d, template).send_frequency)

\* The user may submit for the Template now: a guardian with a selected
\* student, the Template of the guardian's school or of none, the waiting
\* time over.
MaySubmit(d, user, template, now) ==
    /\ \E g \in GuardianOf(d, user) :
          /\ g.selected_student # None
          /\ TemplateById(d, template).school \in {None, g.school}
    /\ ~NotYetEligible(d, user, template, now)

Norm(v) == IF IsEmpty(v) THEN JNull ELSE v

(***************************************************************************)
(* C5: a valid answer set, given in the form its values are stored in,     *)
(* that is persisted on a Response and read back from the Response's       *)
(* Attribute tree is the original answer set, nested rows included (an     *)
(* absent value and an empty one read the same).                           *)
(***************************************************************************)
C5_RoundTrip ==
    last.op = "read" =>
        LET cleaned == full_clean(db, build_django_form(
                           db, 1, last.data, TRUE, FieldsOf(db, 1))).cleaned_data
        IN  (\A k \in DOMAIN last.data : Norm(cleaned[k]) = Norm(last.data[k])) =>
                /\ DOMAIN last.read = DOMAIN last.data
                /\ \A k \in DOMAIN last.data : Norm(last.read[k]) = Norm(last.data[k])

(***************************************************************************)
(* C6: a submission for a Template by a (guardian, student) whose last     *)
(* Response for it was created at t is not accepted and creates no         *)
(* Response while now < t + Delta(frequency of the Template).              *)
(***************************************************************************)
NotYetEligibleRejected ==
    (last'.op = "submit" /\ NotYetEligible(db, last'.user, last'.template, today)) =>
        (last'.outcome # "created" /\ db'.responses = db.responses)

AllAttributesPersisted(d, response, template, data) ==
    \A f \in FieldsOf(d, template) :
        \E a \in d.attributes :
            /\ a.response = response /\ a.field = f.id /\ a.parent = Null
            /\ (f.type = FORM /\ data[f.key].t = "list") =>
                  Cardinality({x \in d.attributes : x.parent = a.id})
                      = Len(data[f.key].rows)
                          * Cardinality(FieldsOf(d, (CHOOSE t \in d.templates :
                                                        t.parent = f.id).id))

SubmissionAtomic ==
    last'.op = "submit" =>
        /\ ~AnswersValid(db, last'.template, last'.data) => db' = db
        /\ (AnswersValid(db, last'.template, last'.data)
              /\ MaySubmit(db, last'.user, last'.template, today)) =>
                /\ \E r \in db'.responses \ db.responses : r.id = last'.response
                /\ AllAttributesPersisted(db', last'.response, last'.template, last'.data)

C7_SubmissionAtomic == [][SubmissionAtomic]_vars

(***************************************************************************)
(* C8: with time in whole days, is_available_now(t0, freq) is false at     *)
(* every now with t0 <= now < t0 + Delta(freq) and true at every           *)
(* now >= t0 + Delta(freq), Delta being 7, 30, 90, 365 and 30 days for     *)
(* weekly, monthly, quarterly, yearly and once; with no last submission it *)
(* is true.                                                                *)
(***************************************************************************)
C8_AvailabilityWindow ==
    last.op = "is_available_now" =>
        IF db.last_dt = NoTime THEN last.result
        ELSE today >= db.last_dt =>
                (last.result <=> today >= db.last_dt + Delta(db.freq))

C8_Witness ==
    /\ last.op = "is_available_now"
    /\ db.last_dt # NoTime
    /\ db.freq = FREQ_YEARLY
    /\ today >= db.last_dt + Delta(db.freq)
    /\ last.result

(***************************************************************************)
(* C9: when a recipient holding a Distribution of the open Period of a     *)
(* Template submits a Response for the Template, the Distribution becomes  *)
(* completed (is_completed, completed_at set) and references the Response; *)
(* a Distribution with no Response is not completed.                       *)
(***************************************************************************)
OpenPeriod(d, period, now) ==
    \E p \in d.periods :
        p.id = period /\ p.is_active /\ ~SurveyPeriod_is_expired(p, now)

DistributionCompleted ==
    /\ (/\ last'.op = "submit"
        /\ AnswersValid(db, last'.template, last'.data)
        /\ MaySubmit(db, last'.user, last'.template, today)) =>
            \A x \in db.distributions :
                (/\ x.user = last'.user
                 /\ x.survey = last'.template
                 /\ OpenPeriod(db, x.period, today)) =>
                    \E y \in db'.distributions :
                        /\ y.id = x.id
                        /\ y.is_completed
                        /\ y.completed_at # None
                        /\ y.response = last'.response
                        /\ y.response # Null
    /\ \A y \in db'.distributions : y.is_completed => y.response # Null

C9_DistributionCompleted == [][DistributionCompleted]_vars

(***************************************************************************)
(* C11: after any sequence of field creations across all Templates no two  *)
(* fields of the store share a key.                                        *)
(***************************************************************************)
C11_KeysUnique ==
    \A f, g \in db.fields : f.key = g.key => f.id = g.id

\* Fields of two Templates, one of them created after a field was deleted.
C11_Witness ==
    /\ \E f, g \in db.fields : f.template # g.template
    /\ db.pk.field > Cardinality(db.fields) + 1
(***************************************************************************)
(* C12: no run of the scheduler opens a Period or creates a Distribution   *)
(* for a Template whose frequency is once; every Period of such a Template *)
(* is opened by a manual send.                                             *)
(***************************************************************************)
OncePeriods(d) ==
    {p \in d.periods : TemplateById(d, p.survey).send_frequency = FREQ_ONCE}

OnceDistributions(d) ==
    {x \in d.distributions : TemplateById(d, x.survey).send_frequency = FREQ_ONCE}

OnceOnlyByManualSend ==
    /\ last'.op = "handle" =>
          /\ OncePeriods(db') = OncePeriods(db)
          /\ OnceDistributions(db') = OnceDistributions(db)
    /\ {p.id : p \in OncePeriods(db')} # {p.id : p \in OncePeriods(db)} =>
          last'.op = "template_send"

C12_OnceOnlyByManualSend == [][OnceOnlyByManualSend]_vars

\* A run that opened a Period for a recurring Template while a once Template
\* with no Period today and one with a Period of an earlier send were there.
C12_Witness ==
    /\ last.op = "handle" /\ ~last.dry_run
    /\ \E p \in db.periods : IsRecurring(db, p.survey) /\ p.start_date = today
    /\ \E p \in OncePeriods(db) : p.start_date < today
    /\ \E t \in db.templates :
          t.send_frequency = FREQ_ONCE /\ \A p \in db.periods : p.survey # t.id

(***************************************************************************)
(* C13: a manual send that the user may make on a once Template opens a    *)
(* Period of the Template that starts today and creates one Distribution   *)
(* per recipient, whatever the date.                                       *)
(***************************************************************************)
DistributionsOf(d, period) == {x \in d.distributions : x.period = period}

ManualSendOpensToday ==
    (last'.op = "template_send" /\ last'.template # Null) =>
        \E p \in db'.periods :
            /\ p.id \notin {q.id : q \in db.periods}
            /\ p.survey = last'.template
            /\ p.school = last'.school
            /\ p.start_date = today
            /\ LET recipients == get_survey_recipients(
                                     db, TemplateById(db, p.survey), p.school)
               IN  recipients.error = None =>
                     /\ Cardinality(DistributionsOf(db', p.id)) = Len(recipients.list)
                     /\ \A i \in 1..Len(recipients.list) :
                           \E x \in DistributionsOf(db', p.id) :
                               /\ x.user = recipients.list[i][1]
                               /\ x.student = recipients.list[i][2]

C13_ManualSendOpensToday == [][ManualSendOpensToday]_vars

(***************************************************************************)
(* C14: a dry run of the scheduler leaves the store as it was (no Period,  *)
(* no Distribution, no is_active flag changed), notifies nobody and        *)
(* reports the recurring Templates that need a new Period: those with no   *)
(* Period and those whose latest Period is over on an aligned date.        *)
(***************************************************************************)
Aligned(freq, date) ==
    CASE freq = FREQ_WEEKLY -> weekday(date) = 0
      [] freq = FREQ_MONTHLY -> day(date) = 1
      [] freq = FREQ_QUARTERLY -> day(date) = 1 /\ month(date) \in {1, 4, 7, 10}
      [] freq = FREQ_YEARLY -> day(date) = 1 /\ month(date) = 9
      [] OTHER -> FALSE

NeedsNewPeriod(d, t, date) ==
    LET ps == {p \in d.periods : p.survey = t.id}
    IN  \/ ps = {}
        \/ /\ \E p \in ps : /\ \A q \in ps : q.start_date <= p.start_date
                            /\ date > p.end_date
           /\ Aligned(t.send_frequency, date)

DryRunWritesNothing ==
    (last'.op = "handle" /\ last'.dry_run) =>
        /\ db' = db
        /\ last'.notified = {}
        /\ ~last'.notify_failed
        /\ last'.reported = {t.id : t \in {u \in db.templates :
                                 /\ IsRecurring(db, u.id)
                                 /\ NeedsNewPeriod(db, u, today)}}

C14_DryRunWritesNothing == [][DryRunWritesNothing]_vars

\* A dry run that reports a Template whose active Period, with Distributions,
\* is over.
C14_Witness ==
    /\ last.op = "handle" /\ last.dry_run
    /\ \E t \in db.templates :
          /\ t.id \in last.reported
          /\ \E p \in db.periods :
                /\ p.survey = t.id /\ p.is_active /\ today > p.end_date
                /\ \E x \in db.distributions : x.period = p.id

(***************************************************************************)
(* C15: when notifying fails after a Period was opened, for one recipient  *)
(* or as a whole, the Period and the Distributions of every recipient stay *)
(* in the store, every earlier row stays, and the store is the one the     *)
(* same step leaves when every notification goes through.                  *)
(***************************************************************************)
PushUp == [app |-> "ok", failing |-> {}, raises |-> FALSE]

OpenedNow(d, e) == {p \in e.periods : p.id \notin {q.id : q \in d.periods}}

NotificationFailureKeepsRows ==
    (last'.op \in {"handle", "template_send"} /\ last'.notify_failed) =>
        /\ \E p \in OpenedNow(db, db') :
              \E x \in DistributionsOf(db', p.id) : x.user \in UsersWithToken
        /\ \A p \in OpenedNow(db, db') :
              /\ p.start_date = today
              /\ LET recipients == get_survey_recipients(
                                       db, TemplateById(db, p.survey), p.school)
                 IN  /\ recipients.error = None
                     /\ Cardinality(DistributionsOf(db', p.id)) = Len(recipients.list)
        /\ {p.id : p \in db.periods} \subseteq {p.id : p \in db'.periods}
        /\ db.distributions \subseteq db'.distributions
        /\ db' = IF last'.op = "handle"
                 THEN handle(db, today, FALSE, PushUp).db
                 ELSE template_send(db, TemplateById(db, last'.template),
                                    last'.school, TRUE, today, PushUp).db

C15_NotificationFailureKeepsRows == [][NotificationFailureKeepsRows]_vars

\* A run in which one recipient of a Period opened today was notified and the
\* notification of another one failed.
C15_Witness ==
    /\ last.op = "handle"
    /\ last.notify_failed
    /\ last.notified # {}
    /\ \E p \in db.periods :
          /\ p.start_date = today
          /\ \E x \in DistributionsOf(db, p.id) : x.user \in last.notified
          /\ \E x \in DistributionsOf(db, p.id) :
                x.user \in UsersWithToken \ last.notified

(***************************************************************************)
(* C16: a run of the scheduler that is not a dry run opens, for every      *)
(* recurring Template that has no Period at all and a school to send to, a *)
(* Period that starts today, whatever the date.                            *)
(***************************************************************************)
HasSchoolToSendTo(d, t) ==
    IF t.is_builtin THEN \E sc \in d.schools : sc.is_active
    ELSE t.school # None

FirstPeriodOpensToday ==
    (last'.op = "handle" /\ ~last'.dry_run) =>
        \A t \in db.templates :
            (/\ IsRecurring(db, t.id)
             /\ HasSchoolToSendTo(db, t)
             /\ \A p \in db.periods : p.survey # t.id) =>
                \E p \in db'.periods : p.survey = t.id /\ p.start_date = today

C16_FirstPeriodOpensToday == [][FirstPeriodOpensToday]_vars

PeriodsOf(d, t) == {p \in d.periods : p.survey = t.id}

LatestPeriods(d, t) ==
    {p \in PeriodsOf(d, t) : \A q \in PeriodsOf(d, t) : q.start_date <= p.start_date}

SameRowsOf(t) ==
    /\ PeriodsOf(db', t) = PeriodsOf(db, t)
    /\ {x \in db'.distributions : x.survey = t.id}
          = {x \in db.distributions : x.survey = t.id}

(***************************************************************************)
(* C17, as claimed: a run on a Tuesday finds that a weekly Template with   *)
(* no Period needs none yet and opens none for it.                         *)
(***************************************************************************)
TuesdayRunWaitsForMonday ==
    (last'.op = "handle" /\ weekday(today) = 1) =>
        \A t \in db.templates :
            (t.send_frequency = FREQ_WEEKLY /\ PeriodsOf(db, t) = {}) =>
                /\ t.id \notin last'.reported
                /\ PeriodsOf(db', t) = {}

TuesdayRunOpensFirstPeriod ==
    (last'.op = "handle" /\ weekday(today) = 1) =>
        \A t \in db.templates :
            (t.send_frequency = FREQ_WEEKLY /\ PeriodsOf(db, t) = {}) =>
                /\ t.id \in last'.reported
                /\ (/\ ~last'.dry_run
                    /\ t.school # None
                    /\ t.target_audience \in {TARGET_TEACHERS, TARGET_EMPLOYEES}) =>
                        \E p \in PeriodsOf(db', t) : p.start_date = today

NoOpeningBeforeEnd ==
    last'.op = "handle" =>
        \A t \in db.templates :
            (/\ IsRecurring(db, t.id)
             /\ \E p \in LatestPeriods(db, t) : today <= p.end_date) =>
                /\ t.id \notin last'.reported
                /\ SameRowsOf(t)

C18_NoOpeningBeforeEnd == [][NoOpeningBeforeEnd]_vars

\* A run on the end date of the latest Period, a date aligned with the
\* frequency of the Template, after which no Period starts today.
C18_Witness ==
    /\ last.op = "handle" /\ ~last.dry_run
    /\ \E t \in db.templates :
          /\ IsRecurring(db, t.id)
          /\ Aligned(t.send_frequency, today)
          /\ \E p \in LatestPeriods(db, t) : p.end_date = today
          /\ \E x \in db.distributions : x.survey = t.id

(***************************************************************************)
(* C19: when the latest Period of a recurring Template is past its end     *)
(* date, a run of the scheduler finds that the Template needs a Period     *)
(* exactly on a date aligned with its frequency (a Monday for weekly, the  *)
(* 1st of a month for monthly, the 1st of January, April, July or October  *)
(* for quarterly, September 1 for yearly); on any other date it leaves the *)
(* Periods and Distributions of the Template as they are.                  *)
(***************************************************************************)
OpensOnlyWhenAligned ==
    last'.op = "handle" =>
        \A t \in db.templates :
            (/\ IsRecurring(db, t.id)
             /\ \E p \in LatestPeriods(db, t) : today > p.end_date) =>
                /\ t.id \in last'.reported <=> Aligned(t.send_frequency, today)
                /\ ~Aligned(t.send_frequency, today) => SameRowsOf(t)

C19_OpensOnlyWhenAligned == [][OpensOnlyWhenAligned]_vars

\* A yearly Template whose Period was over got its next Period on a
\* September 1.
C19_Witness ==
    /\ last.op = "handle" /\ ~last.dry_run
    /\ \E t \in db.templates :
          /\ t.send_frequency = FREQ_YEARLY
          /\ \E p, q \in PeriodsOf(db, t) :
                /\ q.end_date < today
                /\ p.start_date = today
                /\ month(today) = 9 /\ day(today) = 1
                /\ \E x \in db.distributions : x.period = p.id

(***************************************************************************)
(* C20: every Period has end_date = start_date + Delta(frequency of its    *)
(* Template), Delta being 7, 30, 90, 365 and 30 days for weekly, monthly,  *)
(* quarterly, yearly and once, which is also the date the availability     *)
(* calculator gives for a last submission on start_date.                   *)
(***************************************************************************)
C20_EndDateFromDeltaTable ==
    \A p \in db.periods :
        LET freq == TemplateById(db, p.survey).send_frequency
        IN  /\ p.end_date = p.start_date + Delta(freq)
            /\ p.end_date = next_available_at(p.start_date, freq, today)

\* A Period of a once Template opened by a manual send in the second year,
\* next to the one of an earlier opening.
C20_Witness ==
    /\ last.op = "template_send"
    /\ today > 365
    /\ \E p, q \in db.periods :
          /\ p.id = last.period /\ p.start_date = today
          /\ q.start_date < today

(***************************************************************************)
(* C21: opening a Period is all-or-nothing.  A Period that a step leaves   *)
(* in the store has the Distributions of all its recipients, and a         *)
(* Template whose fan-out fails has after the step the Periods it had,     *)
(* the one that was active still active, and the Distributions it had.     *)
(***************************************************************************)
FanOutFails(d, t) ==
    \A school \in {sc.name : sc \in d.schools} \cup {None} :
        get_survey_recipients(d, t, school).error # None

OpeningAllOrNothing ==
    last'.op \in {"handle", "template_send"} =>
        /\ \A p \in OpenedNow(db, db') :
              LET recipients == get_survey_recipients(
                                    db, TemplateById(db, p.survey), p.school)
              IN  /\ recipients.error = None
                  /\ Cardinality(DistributionsOf(db', p.id)) = Len(recipients.list)
        /\ \A t \in db.templates : FanOutFails(db, t) => SameRowsOf(t)

C21_OpeningAllOrNothing == [][OpeningAllOrNothing]_vars

\* A run found that a Template whose active Period is over needs a new one
\* on an aligned date; the fan-out failed and the old Period is still active.
C21_Witness ==
    /\ last.op = "handle" /\ ~last.dry_run
    /\ \E t \in db.templates :
          /\ t.id \in last.reported
          /\ FanOutFails(db, t)
          /\ \E p \in PeriodsOf(db, t) :
                /\ p.is_active /\ p.end_date < today
                /\ \E x \in db.distributions : x.period = p.id

(***************************************************************************)
(* C22: in a run of the scheduler a failure while opening the Period of    *)
(* one (Template, school) pair aborts that pair only: every other pair of  *)
(* a recurring Template that needs a Period, whether processed before or   *)
(* after the failing one, gets its Period, starting today, and one         *)
(* Distribution per recipient.                                             *)
(***************************************************************************)
SchoolsToSendTo(d, t) ==
    IF t.is_builtin THEN {sc.name : sc \in {x \in d.schools : x.is_active}}
    ELSE {t.school} \ {None}

FailureAbortsOnlyItsPair ==
    (last'.op = "handle" /\ ~last'.dry_run) =>
        \A t \in db.templates : \A school \in SchoolsToSendTo(db, t) :
            LET recipients == get_survey_recipients(db, t, school)
            IN  (/\ IsRecurring(db, t.id)
                 /\ NeedsNewPeriod(db, t, today)
                 /\ recipients.error = None) =>
                    \E p \in OpenedNow(db, db') :
                        /\ p.survey = t.id /\ p.school = school
                        /\ p.start_date = today
                        /\ Cardinality(DistributionsOf(db', p.id)) = Len(recipients.list)

C22_FailureAbortsOnlyItsPair == [][FailureAbortsOnlyItsPair]_vars

\* A run in which the opening for one Template failed, between the openings
\* of a Template processed before it and of one processed after it.
C22_Witness ==
    /\ last.op = "handle" /\ ~last.dry_run
    /\ \E t, u, v \in db.templates :
          /\ {t.id, u.id, v.id} \subseteq last.reported
          /\ FanOutFails(db, u) /\ PeriodsOf(db, u) = {}
          /\ \E p \in PeriodsOf(db, t), q \in PeriodsOf(db, v) :
                /\ p.start_date = today /\ q.start_date = today
                /\ p.id < q.id
                /\ DistributionsOf(db, p.id) # {} /\ DistributionsOf(db, q.id) # {}

(***************************************************************************)
(* C23: a newly saved row of a (parent Attribute, Field) pair gets as its  *)
(* ordinal the number of rows the pair has at save time, and the ordinals  *)
(* of a pair are given append-only: the new ordinal is above the ordinal   *)
(* of every row the pair holds, so no row of the pair has it already, also *)
(* after rows were deleted.                                                *)
(***************************************************************************)
SiblingRows(d, attribute) ==
    {x \in d.attributes : /\ x.parent = attribute.parent
                          /\ x.field = attribute.field
                          /\ x.id # attribute.id}

RowOrdinalsAppendOnly ==
    last'.op = "row_save" =>
        \A a \in db'.attributes :
            a.id = last'.attribute =>
                /\ a.row = Cardinality(SiblingRows(db, a))
                /\ \A x \in SiblingRows(db, a) : x.row < a.row

C23_RowOrdinalsAppendOnly == [][RowOrdinalsAppendOnly]_vars

(***************************************************************************)
(* C24: when a submission with a nested-form field is validated, every row *)
(* of the field's list is validated against the Fields of the child        *)
(* Template, and for each row that fails, each failing Field is reported   *)
(* with a path that holds the index of the row and the Field.              *)
(***************************************************************************)
RowFieldFails(row, field) ==
    FormField_clean(get_corresponding_django_form_field(field),
                    Get(row, field.key)).error # None

PathNamesRowAndField(path, i, key) ==
    \E m, n \in DOMAIN path :
        /\ m < n
        /\ path[m] = [row |-> i]
        /\ path[n] = [field |-> key]

C24_RowErrorsCarryPath ==
    last.op = "create" =>
        \A f \in {x \in FieldsOf(db, 1) : x.type = FORM} :
            LET v == Get(last.data, f.key)
                sub_form == CHOOSE t \in db.templates : t.parent = f.id
            IN  v.t = "list" =>
                    \A i \in 1..Len(v.rows) : \A c \in FieldsOf(db, sub_form.id) :
                        RowFieldFails(v.rows[i], c) =>
                            \E path \in last.errors :
                                PathNamesRowAndField(path, i, c.key)

(***************************************************************************)
(* C25: opening a Period for (Template T, school A) changes the is_active  *)
(* flag of Periods of the pair (T, A) only: an active Period of a pair for *)
(* which the step opens no Period stays active, and after the step every   *)
(* pair that got a Period has exactly one active Period.                   *)
(***************************************************************************)
ActivePeriodsOfPair(d, survey, school) ==
    {p \in d.periods : p.survey = survey /\ p.school = school /\ p.is_active}

OpeningTouchesOwnPairOnly ==
    last'.op \in {"handle", "template_send"} =>
        /\ \A p \in db.periods :
              (/\ p.is_active
               /\ \A q \in OpenedNow(db, db') :
                     ~(q.survey = p.survey /\ q.school = p.school)) =>
                  p \in db'.periods
        /\ \A q \in OpenedNow(db, db') :
              Cardinality(ActivePeriodsOfPair(db', q.survey, q.school)) = 1

C25_OpeningTouchesOwnPairOnly == [][OpeningTouchesOwnPairOnly]_vars

(***************************************************************************)
(* C26: the child Template of a nested-form field (a Template with a       *)
(* parent field) has no Period and no Distribution, whatever runs of the   *)
(* scheduler took place.                                                   *)
(***************************************************************************)
C26_ChildTemplatesNeverScheduled ==
    \A t \in db.templates :
        t.parent # Null =>
            /\ PeriodsOf(db, t) = {}
            /\ \A x \in db.distributions : x.survey # t.id

(***************************************************************************)
(* C27: a run of the scheduler on day D+7 opens the next Period of a       *)
(* weekly Template whose latest Period started on a Monday D, so that the  *)
(* Periods of the Template start exactly 7 days apart.                     *)
(***************************************************************************)
WeeklyPeriodsSevenDaysApart ==
    (last'.op = "handle" /\ ~last'.dry_run) =>
        \A t \in db.templates : \A p \in LatestPeriods(db, t) :
            (/\ t.send_frequency = FREQ_WEEKLY
             /\ weekday(p.start_date) = 0
             /\ today = p.start_date + 7
             /\ get_survey_recipients(db, t, p.school).error = None) =>
                \E q \in OpenedNow(db, db') :
                    /\ q.survey = t.id /\ q.school = p.school
                    /\ q.start_date = p.start_date + 7

C27_WeeklyPeriodsSevenDaysApart == [][WeeklyPeriodsSevenDaysApart]_vars

(***************************************************************************)
(* C28: a run of the scheduler opens a Period of a global recurring        *)
(* Template for every active organization that has no Period of it,        *)
(* whatever Periods of the Template the other organizations have.          *)
(***************************************************************************)
PeriodDecidedPerPair ==
    (last'.op = "handle" /\ ~last'.dry_run) =>
        \A t \in db.templates : \A school \in SchoolsToSendTo(db, t) :
            (/\ IsRecurring(db, t.id)
             /\ t.is_builtin
             /\ \A p \in PeriodsOf(db, t) : p.school # school
             /\ get_survey_recipients(db, t, school).error = None) =>
                \E q \in OpenedNow(db, db') :
                    /\ q.survey = t.id /\ q.school = school
                    /\ q.start_date = today

C28_PeriodDecidedPerPair == [][PeriodDecidedPerPair]_vars

C30_OneActiveAfterConcurrentOpenings ==
    (/\ DOMAIN inflight = RequestIds
     /\ \A r \in RequestIds : inflight[r].pc \in {"done", "raised"}) =>
        Cardinality({p \in db.periods :
                        p.survey = inflight[1].survey /\ p.is_active}) <= 1

====
